---- MODULE Spec2Model ----
(***************************************************************************)
(* Model of the backup-target file-selection engine of restic-interfacer:  *)
(* src/src/backup_target.rs (pattern (de)serialization, construction,      *)
(* classification) and generate_files (backup_target.rs / lib.rs, the two  *)
(* copies are line-for-line the same loop).                                *)
(*                                                                         *)
(* Text (glob strings, path strings) is a sequence of one-character        *)
(* strings; every file name of the modelled filesystem is one character    *)
(* long, so a path string is the "/"-joined sequence of its names.         *)
(***************************************************************************)
EXTENDS Naturals, Sequences, FiniteSets, TLC

VARIABLES
    target,     \* the BackupTarget: [alive, folders, exclusions, tags]
    call,       \* the last call or event: [op, folders, exclusions, path]
    result,     \* its outcome: [kind, err, val]
    before,     \* the target as it was when the last call was made
    removed,    \* directories deleted from the filesystem since start-up
    out_tar,    \* result of serde_json::from_str(to_string(target))
    pc,         \* "start" | "ready" | "walking" | "done" | "dead"
    folderIdx,  \* generate_files: index of the folder being walked
    start,      \* walkdir IntoIter.start: root entry not yet yielded
    stack_list, \* walkdir IntoIter.stack_list: one list of items per open dir
    store,      \* the PathStore being filled (set of inserted paths)
    visited,    \* entries walk.next() yielded as Ok, in order
    reported,   \* number of "Error while walking" lines written to stderr
    errs        \* entries the filesystem fails to read during this walk

vars == <<target, call, result, before, removed, out_tar, pc, folderIdx, start,
          stack_list, store, visited, reported, errs>>

walkVars == <<folderIdx, start, stack_list, store, visited, reported, errs>>

---------------------------------------------------------------------------
(* Bounds of the model.                                                    *)
MaxFolders == 2
MaxExclusions == 1

---------------------------------------------------------------------------
(* The filesystem the program runs against.  Absolute canonical paths are  *)
(* sequences of names; <<>> is the root "/".                               *)
FsDirs ==
    { <<>>, <<"d">>, <<"d","c">>, <<"d","c","s">>, <<"d","s">>,
      <<"d","s","c">>, <<"o">> }

FsFiles ==
    { <<"d","a">>, <<"d","c","x">>, <<"d","c","s","x">>, <<"d","s","c","y">> }

\* symbolic links: path |-> canonical target
FsLinks == { [path |-> <<"l">>, to |-> <<"d","c">>] }

FsLinkPaths == { l.path : l \in FsLinks }

LinkTarget(p) == (CHOOSE l \in FsLinks : l.path = p).to

\* the process's current directory (relative paths resolve against it)
Cwd == <<"d">>

\* directories that may be deleted while the program runs
Removable == { <<"d","s">> }

IsPrefix(p, q) ==
    /\ Len(p) <= Len(q)
    /\ SubSeq(q, 1, Len(p)) = p

Exists(p, rm) ==
    /\ p \in FsDirs \cup FsFiles \cup FsLinkPaths
    /\ \A r \in rm : ~IsPrefix(r, p)

IsDir(p, rm) == p \in FsDirs /\ Exists(p, rm)

Parent(p) == IF p = <<>> THEN <<>> ELSE SubSeq(p, 1, Len(p) - 1)

Children(p, rm) ==
    { q \in FsDirs \cup FsFiles \cup FsLinkPaths :
        /\ Len(q) = Len(p) + 1
        /\ IsPrefix(p, q)
        /\ Exists(q, rm) }

---------------------------------------------------------------------------
(* Outcomes of a call.                                                     *)
NoVal == ""

Ok(v) == [kind |-> "Ok", err |-> "", val |-> v]

Err(e) == [kind |-> "Err", err |-> e, val |-> NoVal]

Panic(e) == [kind |-> "Panic", err |-> e, val |-> NoVal]

---------------------------------------------------------------------------
(* std::path.  A path as the caller spells it is [abs, segs]; segs may     *)
(* hold "..".                                                              *)
Raw(abs, segs) == [abs |-> abs, segs |-> segs]

Abs(p) == Raw(TRUE, p)

RECURSIVE Join(_)
Join(segs) ==
    IF segs = <<>> THEN <<>>
    ELSE IF Len(segs) = 1 THEN <<segs[1]>>
    ELSE <<segs[1], "/">> \o Join(Tail(segs))

\* the path's string, as the glob matcher sees it
PathText(raw) ==
    (IF raw.abs THEN <<"/">> ELSE <<>>) \o Join(raw.segs)

\* Path::canonicalize: resolves the path component by component against the
\* filesystem; io::Error when a component does not exist or a non-directory
\* is traversed.
RECURSIVE Resolve(_, _, _)
Resolve(cur, segs, rm) ==
    IF segs = <<>> THEN Ok(cur)
    ELSE IF ~IsDir(cur, rm) THEN Err("io")
    ELSE IF segs[1] = ".." THEN Resolve(Parent(cur), Tail(segs), rm)
    ELSE LET nxt == Append(cur, segs[1]) IN
         IF ~Exists(nxt, rm) THEN Err("io")
         ELSE IF nxt \in FsLinkPaths
              THEN IF Exists(LinkTarget(nxt), rm)
                   THEN Resolve(LinkTarget(nxt), Tail(segs), rm)
                   ELSE Err("io")
              ELSE Resolve(nxt, Tail(segs), rm)

canonicalize(raw, rm) ==
    IF ~raw.abs /\ raw.segs = <<>> THEN Err("io")
    ELSE Resolve(IF raw.abs THEN <<>> ELSE Cwd, raw.segs, rm)

\* Path::ancestors: the path itself, then each parent(), lexically
ancestors(raw) == { Raw(raw.abs, SubSeq(raw.segs, 1, n)) : n \in 0..Len(raw.segs) }

\* Path::starts_with: component-wise prefix
starts_with(path, base) ==
    /\ path.abs = base.abs
    /\ IsPrefix(base.segs, path.segs)

---------------------------------------------------------------------------
(* globset.  Glob text over the alphabet used here parses to an optional   *)
(* leading RecursivePrefix ("**/") followed by literals; "[" opens a       *)
(* character class that is never closed (a syntax error).                  *)
HasRecursivePrefix(glob) ==
    Len(glob) >= 3 /\ SubSeq(glob, 1, 3) = <<"*", "*", "/">>

\* Glob::new
GlobNew(text) ==
    IF \E i \in 1..Len(text) : text[i] = "["
    THEN Err("globset")
    ELSE Ok(text)

IsSuffix(s, t) ==
    /\ Len(s) <= Len(t)
    /\ SubSeq(t, Len(t) - Len(s) + 1, Len(t)) = s

\* Glob matching: RecursivePrefix compiles to (?:/?|.*/), so the literal
\* rest must end the path and be preceded by nothing, or by text ending in "/"
GlobMatches(glob, text) ==
    IF HasRecursivePrefix(glob)
    THEN LET rest == SubSeq(glob, 4, Len(glob))
             n == Len(text) - Len(rest) IN
         /\ IsSuffix(rest, text)
         /\ (n = 0 \/ text[n] = "/")
    ELSE glob = text

---------------------------------------------------------------------------
(* backup_target.rs: MyGlob (de)serialization.                             *)
Prefix == <<"*", "*", "/">>

RECURSIVE trim_end_matches(_)
trim_end_matches(text) ==
    IF text # <<>> /\ text[Len(text)] = "/"
    THEN trim_end_matches(SubSeq(text, 1, Len(text) - 1))
    ELSE text

starts_with_slash(text) == text # <<>> /\ text[1] = "/"

\* impl Serialize for MyGlob: &self.glob()[3..]
serialize(glob) ==
    IF Len(glob) < 3
    THEN Panic("slice index out of range")
    ELSE Ok(SubSeq(glob, 4, Len(glob)))

\* MyGlobVisitor::visit_str
visit_str(value) ==
    LET modded == IF starts_with_slash(value)
                  THEN trim_end_matches(value)
                  ELSE Prefix \o trim_end_matches(value)
        g == GlobNew(modded) IN
    IF g.kind = "Ok" THEN g ELSE Err("String not glob")

---------------------------------------------------------------------------
(* backup_target.rs: BackupTarget.                                         *)
Target(folders, exclusions, tags) ==
    [alive |-> TRUE, folders |-> folders, exclusions |-> exclusions,
     tags |-> tags]

NoTarget ==
    [alive |-> FALSE, folders |-> <<>>, exclusions |-> <<>>, tags |-> <<>>]

\* BackupTarget::new: every folder is canonicalized, .expect() on failure
new(folders, exclusions, tags, rm) ==
    IF \E i \in 1..Len(folders) : canonicalize(folders[i], rm).kind # "Ok"
    THEN Panic("Failed to canonicalize path")
    ELSE Ok(Target([i \in 1..Len(folders) |->
                        Abs(canonicalize(folders[i], rm).val)],
                   exclusions, tags))

\* new_from_string with the folders resolved before the globs are parsed
new_from_string_folders_first(folders, exclusions, tags, rm) ==
    LET globs == [i \in 1..Len(exclusions) |-> GlobNew(Prefix \o exclusions[i])] IN
    IF \E i \in 1..Len(folders) : canonicalize(folders[i], rm).kind # "Ok"
    THEN Panic("Failed to canonicalize path")
    ELSE IF \E i \in 1..Len(globs) : globs[i].kind # "Ok"
    THEN Err("globset")
    ELSE new(folders, [i \in 1..Len(globs) |-> globs[i].val], tags, rm)

\* BackupTarget::new_from_string: the argument list of Self::new is
\* evaluated first (the globs are collected, `?` returns the first error),
\* then Self::new runs
new_from_string(folders, exclusions, tags, rm) ==
    LET globs == [i \in 1..Len(exclusions) |-> GlobNew(Prefix \o exclusions[i])] IN
    IF \E i \in 1..Len(globs) : globs[i].kind # "Ok"
    THEN Err("globset")
    ELSE new(folders, [i \in 1..Len(globs) |-> globs[i].val], tags, rm)

\* add_folder pushing the path as given before it is resolved
add_folder_push_first(t, folder_path, rm) ==
    LET c == canonicalize(folder_path, rm)
        pushed == [t EXCEPT !.folders = Append(@, folder_path)] IN
    IF c.kind # "Ok"
    THEN [res |-> Panic("Failed to canonicalize path"), target |-> pushed]
    ELSE [res |-> Ok(NoVal),
          target |-> [t EXCEPT !.folders = Append(@, Abs(c.val))]]

\* BackupTarget::add_folder: the value pushed is computed (and may panic)
\* before the push; returns the outcome and the target afterwards
add_folder(t, folder_path, rm) ==
    LET c == canonicalize(folder_path, rm) IN
    IF c.kind # "Ok"
    THEN [res |-> Panic("Failed to canonicalize path"), target |-> t]
    ELSE [res |-> Ok(NoVal),
          target |-> [t EXCEPT !.folders = Append(@, Abs(c.val))]]

\* BackupTarget::get_exclusions_as_globset + GlobSet::is_match
is_match(exclusions, path) ==
    \E i \in 1..Len(exclusions) : GlobMatches(exclusions[i], PathText(path))

\* BackupTarget::check_path_is_in_backup
check_path_is_in_backup(t, path, rm) ==
    LET canon == canonicalize(path, rm) IN
    IF t.folders # <<>> /\ canon.kind # "Ok"
    THEN Panic("unwrap on Err")
    ELSE IF \E i \in 1..Len(t.folders) : starts_with(Abs(canon.val), t.folders[i])
    THEN IF \E c \in ancestors(path) : is_match(t.exclusions, c)
         THEN Ok("Excluded")
         ELSE Ok("Included")
    ELSE IF \E i \in 1..Len(t.folders) :
                LET c == canonicalize(t.folders[i], rm) IN
                /\ c.kind = "Ok"
                /\ starts_with(Abs(c.val), path)
    THEN Ok("Contains")
    ELSE Ok("Irreverent")

\* #[derive(Serialize)] for BackupTarget through serde_json::to_string
to_string(t) ==
    IF \E i \in 1..Len(t.exclusions) : serialize(t.exclusions[i]).kind # "Ok"
    THEN Panic("slice index out of range")
    ELSE Ok([folders |-> t.folders,
             exclusions |-> [i \in 1..Len(t.exclusions) |->
                                serialize(t.exclusions[i]).val],
             tags |-> t.tags])

\* #[derive(Deserialize)] for BackupTarget through serde_json::from_str:
\* folders are taken as written, each exclusion goes through visit_str
from_str(json) ==
    IF \E i \in 1..Len(json.exclusions) : visit_str(json.exclusions[i]).kind # "Ok"
    THEN Err("String not glob")
    ELSE Ok(Target(json.folders,
                   [i \in 1..Len(json.exclusions) |->
                       visit_str(json.exclusions[i]).val],
                   json.tags))

\* tests::check_serialize_deserialize: from_str(&to_string(&t).unwrap()).unwrap()
round_trip(t) ==
    LET s == to_string(t) IN
    IF s.kind # "Ok" THEN s
    ELSE LET d == from_str(s.val) IN
         IF d.kind # "Ok" THEN Panic("unwrap on Err") ELSE d

---------------------------------------------------------------------------
(* walkdir, as generate_files drives it: WalkDir::new(folder)              *)
(* .follow_links(false).into_iter(), then next() / skip_current_dir().     *)
(* An item of a directory list is an entry or the error read in its place. *)
Item(p, ok) == [path |-> p, ok |-> ok]

\* the orders in which read_dir may hand out a directory's entries
Orders(S) ==
    { f \in [1..Cardinality(S) -> S] :
        \A i, j \in 1..Cardinality(S) : i # j => f[i] # f[j] }

\* IntoIter::push: opens the directory; a failed read_dir is kept in the
\* list and surfaces as the list's only item
push(stack, dent, ord, bad) ==
    Append(stack,
           IF dent \in bad
           THEN << Item(dent, FALSE) >>
           ELSE [i \in 1..Len(ord) |-> Item(ord[i], ord[i] \notin bad \/ ord[i] \in FsDirs)])

\* IntoIter::pop
pop(stack) == SubSeq(stack, 1, Len(stack) - 1)

\* IntoIter::skip_current_dir
skip_current_dir(stack) == IF stack # <<>> THEN pop(stack) ELSE stack

\* IntoIter::handle_entry with follow_links(false): a directory that is not
\* a symbolic link is opened, anything else is only yielded
handle_entry(stack, dent, ord, rm, bad) ==
    IF IsDir(dent, rm) THEN push(stack, dent, ord, bad) ELSE stack

\* IntoIter::next, the exhausted lists on top of the stack: None => self.pop()
RECURSIVE DropExhausted(_)
DropExhausted(stack) ==
    IF stack # <<>> /\ stack[Len(stack)] = <<>>
    THEN DropExhausted(pop(stack))
    ELSE stack

\* the list on top with its first item taken: stack_list.last_mut().next()
TakeItem(stack) == [stack EXCEPT ![Len(stack)] = Tail(@)]

TopItem(stack) == Head(stack[Len(stack)])

---------------------------------------------------------------------------
(* generate_files: the body of `while let Some(entry) = walk.next()`.      *)
Walk(stack, st, vis, go) ==
    [stack |-> stack, store |-> st, visited |-> vis, go |-> go]

\* the error branch leaving the directory the error was read in
on_walk_error_skip(stack, st, vis) == Walk(skip_current_dir(stack), st, vis, TRUE)

\* Err(err) => { eprintln!(..); continue; }
on_walk_error(stack, st, vis) == Walk(stack, st, vis, TRUE)

\* Ok(entry): the entry's own path is tested; a match skips the current
\* directory of the walker, anything else is added to the store
on_entry(exclusions, stack, st, vis, entry) ==
    IF is_match(exclusions, Abs(entry))
    THEN Walk(skip_current_dir(stack), st, Append(vis, entry), TRUE)
    ELSE Walk(stack, st \cup {entry}, Append(vis, entry), TRUE)

---------------------------------------------------------------------------
(* Inputs of the calls.                                                    *)
SeqsUpTo(S, n) == UNION { [1..k -> S] : k \in 0..n }

\* folder arguments: existing directories, a symbolic link, a relative
\* path, and a path that does not exist
FolderInputs ==
    { Abs(<<"d">>), Abs(<<"d","c","s">>), Abs(<<"l">>), Raw(FALSE, <<"s">>),
      Abs(<<"n">>) }

\* exclusion strings: depth-free, rooted, with a trailing separator, invalid
RawExclusions ==
    { <<"c">>, <<"a">>, <<"/","d","/","c">>, <<"c","/">>, <<"[">> }

\* globs the caller built itself with Glob::new
PrebuiltGlobs ==
    { <<"*","*","/","c">>, <<"/","d","/","c">> }

\* folders as written in a serialized target
JsonFolders == { Abs(<<"d">>), Abs(<<"d","c","s">>) }

TagInputs == { <<"abc">> }

\* paths asked of the classifier: every node of the filesystem by its
\* canonical name, and other spellings (through the link, relative, with "..")
Queries ==
    { Abs(p) : p \in FsDirs \cup FsFiles }
    \cup { Abs(<<"l">>), Abs(<<"l","s","x">>), Abs(<<"n">>),
           Abs(<<"d","c","..","a">>), Abs(<<"o","..","d","c","x">>),
           Raw(FALSE, <<"a">>), Raw(FALSE, <<"c","x">>), Raw(FALSE, <<"..">>),
           Raw(FALSE, <<"..","o">>) }

\* entries that may fail to be read during a walk: a file whose entry
\* cannot be read, a directory that cannot be opened
ErrCandidates == { <<"d","a">>, <<"d","s">> }

NoPath == Raw(FALSE, <<>>)

Call(op, folders, exclusions, path) ==
    [op |-> op, folders |-> folders, exclusions |-> exclusions, path |-> path]

---------------------------------------------------------------------------
Init ==
    /\ target = NoTarget
    /\ call = Call("none", <<>>, <<>>, NoPath)
    /\ result = Ok(NoVal)
    /\ before = NoTarget
    /\ removed = {}
    /\ out_tar = Ok(NoVal)
    /\ pc = "start"
    /\ folderIdx = 0
    /\ start = FALSE
    /\ stack_list = <<>>
    /\ store = {}
    /\ visited = <<>>
    /\ reported = 0
    /\ errs = {}

\* a constructor's outcome becomes the target, or the run ends
Constructed(op, folders, exclusions, r) ==
    /\ call' = Call(op, folders, exclusions, NoPath)
    /\ result' = [r EXCEPT !.val = NoVal]
    /\ target' = IF r.kind = "Ok" THEN r.val ELSE NoTarget
    /\ before' = target
    /\ pc' = IF r.kind = "Ok" THEN "ready" ELSE "dead"
    /\ UNCHANGED <<removed, out_tar>>
    /\ UNCHANGED walkVars

New ==
    /\ pc = "start"
    /\ \E folders \in SeqsUpTo(FolderInputs, MaxFolders),
          globs \in SeqsUpTo(PrebuiltGlobs, MaxExclusions),
          tags \in TagInputs :
            Constructed("new", folders, globs, new(folders, globs, tags, removed))

NewFromString ==
    /\ pc = "start"
    /\ \E folders \in SeqsUpTo(FolderInputs, MaxFolders),
          exclusions \in SeqsUpTo(RawExclusions, MaxExclusions),
          tags \in TagInputs :
            Constructed("new_from_string", folders, exclusions,
                        new_from_string(folders, exclusions, tags, removed))

FromStr ==
    /\ pc = "start"
    /\ \E folders \in SeqsUpTo(JsonFolders, MaxFolders),
          exclusions \in SeqsUpTo(RawExclusions, MaxExclusions),
          tags \in TagInputs :
            Constructed("from_str", folders, exclusions,
                        from_str([folders |-> folders, exclusions |-> exclusions,
                                  tags |-> tags]))

AddFolder ==
    /\ pc = "ready"
    /\ Len(target.folders) < MaxFolders
    /\ \E f \in FolderInputs :
        LET r == add_folder(target, f, removed) IN
        /\ call' = Call("add_folder", <<f>>, <<>>, NoPath)
        /\ result' = r.res
        /\ target' = r.target
        /\ before' = target
        /\ pc' = IF r.res.kind = "Ok" THEN "ready" ELSE "dead"
    /\ UNCHANGED <<removed, out_tar>>
    /\ UNCHANGED walkVars

\* the environment deletes a directory (and what is beneath it)
RemoveDir ==
    /\ pc = "ready"
    /\ \E p \in Removable \ removed :
        /\ removed' = removed \cup {p}
        /\ call' = Call("remove_dir", <<>>, <<>>, Abs(p))
    /\ result' = Ok(NoVal)
    /\ before' = target
    /\ UNCHANGED <<target, out_tar, pc>>
    /\ UNCHANGED walkVars

CheckPath ==
    /\ pc = "ready"
    /\ \E q \in Queries :
        LET r == check_path_is_in_backup(target, q, removed) IN
        /\ call' = Call("check_path_is_in_backup", <<>>, <<>>, q)
        /\ result' = r
        /\ pc' = IF r.kind = "Ok" THEN "ready" ELSE "dead"
    /\ before' = target
    /\ UNCHANGED <<target, removed, out_tar>>
    /\ UNCHANGED walkVars

RoundTrip ==
    /\ pc = "ready"
    /\ call' = Call("round_trip", <<>>, <<>>, NoPath)
    /\ out_tar' = round_trip(target)
    /\ result' = [round_trip(target) EXCEPT !.val = NoVal]
    /\ pc' = IF round_trip(target).kind = "Ok" THEN "ready" ELSE "dead"
    /\ before' = target
    /\ UNCHANGED <<target, removed>>
    /\ UNCHANGED walkVars

---------------------------------------------------------------------------
(* generate_files, one action per turn of its loops.                       *)
Root == target.folders[folderIdx].segs

Walking == pc = "walking" /\ folderIdx <= Len(target.folders)

Step(w) ==
    /\ stack_list' = w.stack
    /\ store' = w.store
    /\ visited' = w.visited
    /\ pc' = IF w.go THEN "walking" ELSE "dead"

\* let mut store = PathStore::new(None); let ex_set = ...; for folder in ..
GenerateFiles ==
    /\ pc = "ready"
    /\ call' = Call("generate_files", <<>>, <<>>, NoPath)
    /\ result' = Ok(NoVal)
    /\ pc' = "walking"
    /\ folderIdx' = 1
    /\ start' = TRUE
    /\ stack_list' = <<>>
    /\ store' = {}
    /\ visited' = <<>>
    /\ reported' = 0
    /\ errs' \in SUBSET ErrCandidates
    /\ before' = target
    /\ UNCHANGED <<target, removed, out_tar>>

\* walk.next() for the root of the folder: DirEntry::from_path succeeds
WalkRoot ==
    /\ Walking /\ start
    /\ Exists(Root, removed)
    /\ \E ord \in Orders(Children(Root, removed)) :
        Step(on_entry(target.exclusions,
                      handle_entry(<<>>, Root, ord, removed, errs),
                      store, visited, Root))
    /\ start' = FALSE
    /\ UNCHANGED <<target, call, result, before, removed, out_tar, folderIdx, reported, errs>>

\* walk.next() for the root of the folder: DirEntry::from_path fails
WalkRootError ==
    /\ Walking /\ start
    /\ ~Exists(Root, removed)
    /\ Step(on_walk_error(<<>>, store, visited))
    /\ reported' = reported + 1
    /\ start' = FALSE
    /\ UNCHANGED <<target, call, result, before, removed, out_tar, folderIdx, errs>>

\* walk.next() yields the next entry of the directory on top of the stack
WalkEntry ==
    /\ Walking /\ ~start
    /\ DropExhausted(stack_list) # <<>>
    /\ LET st == DropExhausted(stack_list)
           item == TopItem(st) IN
       /\ item.ok
       /\ \E ord \in Orders(Children(item.path, removed)) :
            Step(on_entry(target.exclusions,
                          handle_entry(TakeItem(st), item.path, ord, removed, errs),
                          store, visited, item.path))
    /\ UNCHANGED <<target, call, result, before, removed, out_tar, folderIdx, start,
                   reported, errs>>

\* walk.next() yields the error read in place of an entry
WalkError ==
    /\ Walking /\ ~start
    /\ DropExhausted(stack_list) # <<>>
    /\ LET st == DropExhausted(stack_list)
           item == TopItem(st) IN
       /\ ~item.ok
       /\ Step(on_walk_error(TakeItem(st), store, visited))
    /\ reported' = reported + 1
    /\ UNCHANGED <<target, call, result, before, removed, out_tar, folderIdx, start, errs>>

\* walk.next() is None: the for loop takes the next folder
WalkNextFolder ==
    /\ Walking /\ ~start
    /\ DropExhausted(stack_list) = <<>>
    /\ folderIdx' = folderIdx + 1
    /\ start' = TRUE
    /\ stack_list' = <<>>
    /\ UNCHANGED <<target, call, result, before, removed, out_tar, pc, store, visited,
                   reported, errs>>

\* the for loop is over: the store is returned
WalkFinish ==
    /\ pc = "walking"
    /\ folderIdx > Len(target.folders)
    /\ pc' = "done"
    /\ start' = FALSE
    /\ UNCHANGED <<target, call, result, before, removed, out_tar, folderIdx,
                   stack_list, store, visited, reported, errs>>

Next ==
    \/ New
    \/ NewFromString
    \/ FromStr
    \/ AddFolder
    \/ RemoveDir
    \/ CheckPath
    \/ RoundTrip
    \/ GenerateFiles
    \/ WalkRoot
    \/ WalkRootError
    \/ WalkEntry
    \/ WalkError
    \/ WalkNextFolder
    \/ WalkFinish

Spec == Init /\ [][Next]_vars

---------------------------------------------------------------------------
(* Construction and mutation alone.                                        *)
NextNew ==
    \/ New
    \/ NewFromString
    \/ FromStr
    \/ AddFolder
    \/ RemoveDir

SpecNew == Init /\ [][NextNew]_vars

---------------------------------------------------------------------------
(* generate_files alone, on each target new_from_string builds from the    *)
(* folders and exclusion strings below.                                    *)
WalkFolderInputs == { Abs(<<"d">>), Abs(<<"d","c","s">>), Raw(FALSE, <<"s">>) }

WalkExclusions == { <<"c">>, <<"a">>, <<"/","d","/","c">> }

WalkInit(folderInputs, exclusionInputs) ==
    /\ \E folders \in SeqsUpTo(folderInputs, MaxFolders),
          exclusions \in SeqsUpTo(exclusionInputs, MaxExclusions),
          tags \in TagInputs :
        /\ call = Call("new_from_string", folders, exclusions, NoPath)
        /\ target = new_from_string(folders, exclusions, tags, {}).val
    /\ result = Ok(NoVal)
    /\ before = NoTarget
    /\ removed = {}
    /\ out_tar = Ok(NoVal)
    /\ pc = "ready"
    /\ folderIdx = 0
    /\ start = FALSE
    /\ stack_list = <<>>
    /\ store = {}
    /\ visited = <<>>
    /\ reported = 0
    /\ errs = {}

InitWalk == WalkInit(WalkFolderInputs, WalkExclusions)

\* one turn of generate_files' loops
WalkTurn ==
    \/ WalkRoot
    \/ WalkRootError
    \/ WalkEntry
    \/ WalkError
    \/ WalkNextFolder
    \/ WalkFinish

NextWalk ==
    \/ RemoveDir
    \/ GenerateFiles
    \/ WalkTurn

SpecWalk == InitWalk /\ [][NextWalk]_vars

---------------------------------------------------------------------------
(* generate_files once called runs on the calling thread until it returns: *)
(* its loops keep taking turns.  Targets over the working directory and a  *)
(* folder that can be deleted, with or without an excluded directory.      *)
FairFolderInputs == { Abs(<<"d">>), Raw(FALSE, <<"s">>) }

FairExclusions == { <<"c">> }

InitWalkFair == WalkInit(FairFolderInputs, FairExclusions)

SpecWalkFair ==
    /\ InitWalkFair
    /\ [][NextWalk]_vars
    /\ WF_vars(WalkTurn)

---------------------------------------------------------------------------
(* Claims about construction and mutation (SpecNew).                       *)
Unresolvable(f) == canonicalize(f, removed).kind # "Ok"

SomeFolderUnresolvable == \E i \in 1..Len(call.folders) : Unresolvable(call.folders[i])

SomeExclusionInvalid ==
    \E i \in 1..Len(call.exclusions) :
        GlobNew(Prefix \o call.exclusions[i]).kind # "Ok"

PathFailure == result.err = "Failed to canonicalize path"

\* C8 as stated: when new_from_string is given both a folder that cannot be
\* canonicalized and an invalid exclusion string, the outcome is the folder
\* (path resolution) failure and never the pattern syntax error.
C8_FolderErrorFirst ==
    (call.op = "new_from_string" /\ SomeFolderUnresolvable /\ SomeExclusionInvalid)
        => (result.kind # "Ok" /\ PathFailure)

\* C8 amended: when new_from_string is given both a folder that cannot be
\* canonicalized and an invalid exclusion string, the exclusion strings are
\* parsed before any folder is canonicalized, so the call returns the pattern
\* syntax error (globset::Error) and yields no target; the folder failure
\* never surfaces.
C8_PatternErrorFirst ==
    (call.op = "new_from_string" /\ SomeFolderUnresolvable /\ SomeExclusionInvalid)
        => (result = Err("globset") /\ ~target.alive)

C8_Witness ==
    /\ call.op = "new_from_string"
    /\ SomeFolderUnresolvable
    /\ SomeExclusionInvalid
    /\ result.kind = "Err"
    /\ pc = "dead"

\* C9 as stated: new with a folder that does not exist returns a
\* PathResolutionError to the caller and yields no target; add_folder with a
\* path that does not exist returns a PathResolutionError and leaves the
\* target's folders, exclusions and tags as they were before the call.
C9_ReturnsPathResolutionError ==
    /\ (call.op = "new" /\ SomeFolderUnresolvable)
        => (result.kind = "Err" /\ PathFailure /\ ~target.alive)
    /\ (call.op = "add_folder" /\ SomeFolderUnresolvable)
        => (result.kind = "Err" /\ PathFailure /\ target = before)

\* C9 amended: new with a folder that does not exist does not return: it
\* panics ("Failed to canonicalize path") and yields no target; add_folder
\* with a path that does not exist panics likewise, before anything is
\* pushed, so the target's folders, exclusions and tags are exactly as they
\* were before the call.
C9_PanicsNoPartialState ==
    /\ (call.op = "new" /\ SomeFolderUnresolvable)
        => (result.kind = "Panic" /\ PathFailure /\ ~target.alive)
    /\ (call.op = "add_folder" /\ SomeFolderUnresolvable)
        => (result.kind = "Panic" /\ PathFailure /\ target = before)

C9_Witness ==
    /\ call.op = "add_folder"
    /\ SomeFolderUnresolvable
    /\ result.kind = "Panic"
    /\ before.alive
    /\ before.folders # <<>>
    /\ before.exclusions # <<>>

---------------------------------------------------------------------------
(* Claims about generate_files (SpecWalk).                                 *)
Excluded(p) == is_match(target.exclusions, Abs(p))

Visited(p) == \E i \in 1..Len(visited) : visited[i] = p

FolderRoot(i) == target.folders[i].segs

StrictlyBeneath(p, d) == IsPrefix(d, p) /\ p # d

\* the walk never ends abnormally, every folder of the target is walked,
\* every entry read is in the store unless its own path is excluded, and an
\* entry of a directory that was read is itself read unless it is the entry
\* that failed or the walker left the directory at an excluded non-directory
ErrorsNonFatal ==
    /\ call.op = "generate_files" => pc \in {"walking", "done"}
    /\ pc = "done" =>
        /\ \A i \in 1..Len(target.folders) :
              Exists(FolderRoot(i), removed) => Visited(FolderRoot(i))
        /\ \A i \in 1..Len(visited) :
              ~Excluded(visited[i]) => visited[i] \in store
        /\ \A i \in 1..Len(visited) :
              LET D == visited[i] IN
              (IsDir(D, removed) /\ ~Excluded(D) /\ D \notin errs) =>
                 \A e \in Children(D, removed) :
                    \/ Visited(e)
                    \/ e \in errs /\ e \notin FsDirs
                    \/ \E f \in Children(D, removed) :
                          f \notin FsDirs /\ Visited(f) /\ Excluded(f)

\* a turn of the loop that reads an error reports it and changes nothing
\* else: the store, the entries read so far and the entries still to be read
ErrorStepContinues ==
    (pc = "walking" /\ reported' = reported + 1) =>
        /\ pc' = "walking"
        /\ store' = store
        /\ visited' = visited
        /\ folderIdx' = folderIdx
        /\ stack_list' = IF start THEN <<>> ELSE TakeItem(DropExhausted(stack_list))

C1_PruningCorrectness ==
    pc = "done" =>
        \A D \in FsDirs :
            (Exists(D, removed) /\ Excluded(D)) =>
                \A p \in store : ~StrictlyBeneath(p, D)

\* the entries reachable from a target folder without following links
Reachable ==
    { p \in FsDirs \cup FsFiles :
        /\ Exists(p, removed)
        /\ \E i \in 1..Len(target.folders) : IsPrefix(FolderRoot(i), p) }

\* C2: for every entry P reachable from a target folder, P is in the result
\* of generate_files if and only if check_path_is_in_backup(P) is Included
\* (no entry failing to be read).
C2_SelectorClassifierEquivalence ==
    (pc = "done" /\ errs = {}) =>
        \A p \in Reachable :
            p \in store <=>
                check_path_is_in_backup(target, Abs(p), removed) = Ok("Included")

\* C3: when a visited entry matches an exclusion pattern and is a file, only
\* that file is skipped: every sibling of it in the same directory that
\* matches no exclusion pattern is still visited and inserted into the store
\* (no entry failing to be read).
C3_ExcludedFileSkipsOnlyItself ==
    (pc = "done" /\ errs = {}) =>
        \A i \in 1..Len(visited) :
            LET f == visited[i] IN
            (f \in FsFiles /\ Excluded(f) /\ Visited(Parent(f)) /\ f # <<>>) =>
                \A g \in Children(Parent(f), removed) :
                    ~Excluded(g) => (Visited(g) /\ g \in store)

---------------------------------------------------------------------------
(* Claims about the classifier and the patterns (Spec).                    *)
Canon == canonicalize(call.path, removed)

UnderSomeFolder(p) ==
    \E i \in 1..Len(target.folders) : starts_with(Abs(p), target.folders[i])

\* C4: for every queried path whose canonical form is equal to or beneath a
\* target folder, however the caller spelled it, check_path_is_in_backup is
\* Excluded if and only if some ancestor of the canonical path (the path
\* itself and the root included) matches an exclusion pattern, and Included
\* otherwise.
C4_ExcludedIffCanonicalAncestorMatches ==
    (/\ call.op = "check_path_is_in_backup"
     /\ Canon.kind = "Ok"
     /\ UnderSomeFolder(Canon.val)) =>
        /\ result.kind = "Ok"
        /\ result.val =
              IF \E a \in ancestors(Abs(Canon.val)) : is_match(target.exclusions, a)
              THEN "Excluded"
              ELSE "Included"

\* C5: for every queried path that is not equal to or beneath any target
\* folder, check_path_is_in_backup is Contains if and only if some target
\* folder (one that can still be canonicalized) is equal to or beneath the
\* queried path, and Irrelevant otherwise.
C5_ContainsIffFolderBeneath ==
    (/\ call.op = "check_path_is_in_backup"
     /\ Canon.kind = "Ok"
     /\ ~UnderSomeFolder(Canon.val)) =>
        /\ result.kind = "Ok"
        /\ result.val =
              IF \E i \in 1..Len(target.folders) :
                    /\ canonicalize(target.folders[i], removed).kind = "Ok"
                    /\ IsPrefix(Canon.val, canonicalize(target.folders[i], removed).val)
              THEN "Contains"
              ELSE "Irreverent"

\* the path strings patterns are compared on
PathTexts == { PathText(q) : q \in Queries }

SameMatchSet(g, h) ==
    \A t \in PathTexts : GlobMatches(g, t) <=> GlobMatches(h, t)

\* C6: for every pattern held by a constructed target, rooted as well as
\* depth-free, deserializing its serialized text yields a pattern matching
\* the same paths, and the target serialized and deserialized equals the
\* original.
C6_PatternRoundTrip ==
    call.op = "round_trip" =>
        /\ out_tar.kind = "Ok"
        /\ Len(out_tar.val.exclusions) = Len(target.exclusions)
        /\ \A i \in 1..Len(target.exclusions) :
              SameMatchSet(out_tar.val.exclusions[i], target.exclusions[i])
        /\ out_tar.val = target

\* the normal form the claim gives for a raw exclusion string
Normalized(raw) ==
    IF starts_with_slash(raw)
    THEN trim_end_matches(raw)
    ELSE Prefix \o trim_end_matches(raw)

\* C7: new_from_string stores, for a raw string beginning with "/", the text
\* itself with trailing separators stripped, otherwise the text with trailing
\* separators stripped and prefixed by the any-depth qualifier; it is the
\* pattern that deserializing the same raw text produces.
C7_NewFromStringNormalizes ==
    (call.op = "new_from_string" /\ result.kind = "Ok") =>
        \A i \in 1..Len(call.exclusions) :
            /\ target.exclusions[i] = Normalized(call.exclusions[i])
            /\ target.exclusions[i] = visit_str(call.exclusions[i]).val

====
